---- MODULE Spec2Model ----
(***************************************************************************)
(* Subgraph extraction (collapse-to-function) and inlining (expand-node)   *)
(* of OrchestratorScriptView, src/src/editor/script_view.cpp.              *)
(*                                                                         *)
(* The Graph Model (nodes, pins, connections, subgraphs, functions) is the *)
(* state; the two handlers are translated statement by statement into      *)
(* steps driven by a program counter.  The handlers run to completion on   *)
(* the UI thread, so no step of another handler interleaves.               *)
(***************************************************************************)
EXTENDS Integers, Sequences, FiniteSets, TLC

\* Bounds of the model.
MaxConns == 3      \* connections in the orchestration when the editor opens
MaxOps == 2        \* handler invocations in one behaviour

VARIABLES
    nodes,       \* node id -> [kind, graph, pos, fn, lay]  (the Orchestration's nodes)
    conns,       \* the Orchestration's global connection list, in insertion order
    pinLinks,    \* the pins' back-references, as the set of links the pins know
    functions,   \* function index -> [entry, result, args, has_return, return_type]
    nextId,      \* next unused node id
    pc,          \* position inside the running handler, "idle" between handlers
    loc,         \* the running (or last) handler's local variables
    pre,         \* the Graph Model when the running (or last) handler was entered
    last,        \* [kind, outcome, reported] of the running (or last) handler
    linkLog,     \* links made by the running (or last) handler, with pin existence at creation
    hist,        \* summary of the last extraction that ran to its end
    ops          \* handler invocations so far

vars == <<nodes, conns, pinLinks, functions, nextId, pc, loc, pre, last, linkLog, hist, ops>>

----------------------------------------------------------------------------
\* Vectors and rectangles (Vector2, Rect2)

Vec(x, y) == <<x, y>>
VAdd(a, b) == <<a[1] + b[1], a[2] + b[2]>>
VSub(a, b) == <<a[1] - b[1], a[2] - b[2]>>
Min2(a, b) == IF a < b THEN a ELSE b
Max2(a, b) == IF a < b THEN b ELSE a

\* Rect2::expand_to: grow the rectangle to contain point p
ExpandTo(r, p) ==
    LET bx == Min2(r.position[1], p[1])
        by == Min2(r.position[2], p[2])
        ex == Max2(r.position[1] + r.size[1], p[1])
        ey == Max2(r.position[2] + r.size[2], p[2])
    IN [position |-> Vec(bx, by), size |-> Vec(ex - bx, ey - by)]

\* Rect2::get_center: position + size / 2 (coordinates are kept even, so exact)
GetCenter(r) == Vec(r.position[1] + (r.size[1] \div 2), r.position[2] + (r.size[2] \div 2))

EmptyRect == [position |-> Vec(0, 0), size |-> Vec(0, 0)]

RECURSIVE ExpandAll(_, _, _)
ExpandAll(r, S, N) ==
    IF S = {} THEN r
    ELSE LET n == CHOOSE m \in S : TRUE
         IN ExpandAll(ExpandTo(r, N[n].pos), S \ {n}, N)

\* _get_node_set_rect over the node set S of the node table N
GetNodeSetRect(S, N) ==
    IF S = {} THEN EmptyRect
    ELSE LET first == CHOOSE m \in S : \A k \in S : m <= k
         IN ExpandAll([position |-> N[first].pos, size |-> Vec(0, 0)], S, N)

----------------------------------------------------------------------------
\* Pins

ExecPin(name) == [kind |-> "exec", name |-> name, type |-> "nil"]
DataPin(name, type) == [kind |-> "data", name |-> name, type |-> type]

\* Pin layouts of the plain nodes of the orchestration
Layout ==
    [ev    |-> [inputs  |-> <<>>,
                outputs |-> <<ExecPin("ExecOut"), DataPin("delta", "int")>>,
                dup |-> FALSE],
     print |-> [inputs  |-> <<ExecPin("ExecIn"), DataPin("text", "str")>>,
                outputs |-> <<ExecPin("ExecOut"), DataPin("result", "str")>>,
                dup |-> TRUE],
     add   |-> [inputs  |-> <<DataPin("a", "int"), DataPin("b", "int")>>,
                outputs |-> <<DataPin("sum", "int")>>,
                dup |-> TRUE],
     sink  |-> [inputs  |-> <<ExecPin("ExecIn"), DataPin("value", "any"), DataPin("count", "int")>>,
                outputs |-> <<ExecPin("ExecOut")>>,
                dup |-> TRUE]]

ArgPins(args) == [i \in DOMAIN args |-> DataPin(args[i].name, args[i].type)]

\* node->find_pins(PD_Input) of node id in node table N with function table F
InputPins(N, F, id) ==
    LET n == N[id] IN
    CASE n.kind = "generic" -> Layout[n.lay].inputs
      [] n.kind = "entry"   -> <<>>
      [] n.kind = "result"  ->
            <<ExecPin("ExecIn")>> \o
            (IF F[n.fn].has_return THEN <<DataPin("return_value", F[n.fn].return_type)>> ELSE <<>>)
      [] n.kind = "call"    ->
            <<ExecPin("ExecIn")>> \o (IF n.fn \in DOMAIN F THEN ArgPins(F[n.fn].args) ELSE <<>>)

\* node->find_pins(PD_Output)
OutputPins(N, F, id) ==
    LET n == N[id] IN
    CASE n.kind = "generic" -> Layout[n.lay].outputs
      [] n.kind = "entry"   -> <<ExecPin("ExecOut")>> \o ArgPins(F[n.fn].args)
      [] n.kind = "result"  -> <<>>
      [] n.kind = "call"    ->
            <<ExecPin("ExecOut")>> \o
            (IF n.fn \in DOMAIN F /\ F[n.fn].has_return
               THEN <<DataPin("return_value", F[n.fn].return_type)>> ELSE <<>>)

\* ports are 0-based, sequences 1-based
HasInputPin(N, F, id, port) == id \in DOMAIN N /\ port + 1 \in DOMAIN InputPins(N, F, id)
HasOutputPin(N, F, id, port) == id \in DOMAIN N /\ port + 1 \in DOMAIN OutputPins(N, F, id)
InputPin(N, F, id, port) == InputPins(N, F, id)[port + 1]
OutputPin(N, F, id, port) == OutputPins(N, F, id)[port + 1]

\* node->can_duplicate()
CanDuplicate(N, id) ==
    CASE N[id].kind = "generic" -> Layout[N[id].lay].dup
      [] N[id].kind = "call"    -> TRUE
      [] OTHER                  -> FALSE

----------------------------------------------------------------------------
\* Connections

Conn(fn, fp, tn, tp) == [from_node |-> fn, from_port |-> fp, to_node |-> tn, to_port |-> tp]

Elems(s) == {s[i] : i \in DOMAIN s}

ConnLess(a, b) ==
    \/ a.from_node < b.from_node
    \/ a.from_node = b.from_node /\ a.from_port < b.from_port
    \/ a.from_node = b.from_node /\ a.from_port = b.from_port /\ a.to_node < b.to_node
    \/ a.from_node = b.from_node /\ a.from_port = b.from_port /\ a.to_node = b.to_node
         /\ a.to_port < b.to_port

RECURSIVE SeqOfConns(_)
SeqOfConns(S) ==
    IF S = {} THEN <<>>
    ELSE LET m == CHOOSE c \in S : \A d \in S \ {c} : ConnLess(c, d)
         IN <<m>> \o SeqOfConns(S \ {m})

RECURSIVE SeqOfIds(_)
SeqOfIds(S) ==
    IF S = {} THEN <<>>
    ELSE LET m == CHOOSE c \in S : \A d \in S : c <= d
         IN <<m>> \o SeqOfIds(S \ {m})

\* OScriptGraph::link: record the connection globally and on both pins
LinkConns(cs, c) == IF c \in Elems(cs) THEN cs ELSE Append(cs, c)
LinkPins(pl, c) == pl \cup {c}

\* OScriptGraph::unlink: drop the global record and the pins' back-references
UnlinkConns(cs, S) == SelectSeq(cs, LAMBDA c : c \notin S)
UnlinkPins(pl, S) == pl \ S

\* what a link made now is recorded as: do both pins exist at this moment?
LogEntry(N, F, c, line) ==
    [conn |-> c, line |-> line,
     src_ok |-> HasOutputPin(N, F, c.from_node, c.from_port),
     dst_ok |-> HasInputPin(N, F, c.to_node, c.to_port)]

----------------------------------------------------------------------------
\* Boundary classifier: _resolve_node_set_connections

\* first pass, input pins: back-references of the selected nodes' input pins
\* whose other end is owned by a node outside the selection
InputCountAll(N, F, pl, p_nodes, kind) ==
    Cardinality({c \in pl :
        /\ c.to_node \in p_nodes
        /\ HasInputPin(N, F, c.to_node, c.to_port)
        /\ InputPin(N, F, c.to_node, c.to_port).kind = kind})
InputCount(N, F, pl, p_nodes, kind) ==
    Cardinality({c \in pl :
        /\ c.to_node \in p_nodes
        /\ HasInputPin(N, F, c.to_node, c.to_port)
        /\ c.from_node \notin p_nodes
        /\ InputPin(N, F, c.to_node, c.to_port).kind = kind})

\* first pass, output pins
OutputCount(N, F, pl, p_nodes, kind) ==
    Cardinality({c \in pl :
        /\ c.from_node \in p_nodes
        /\ HasOutputPin(N, F, c.from_node, c.from_port)
        /\ c.to_node \notin p_nodes
        /\ OutputPin(N, F, c.from_node, c.from_port).kind = kind})

\* second pass: the three tests applied to each connection E of the global list
IsInternal(p_nodes, E) == E.from_node \in p_nodes /\ E.to_node \in p_nodes
IsInboundLoose(p_nodes, E) == E.to_node \in p_nodes
IsInbound(p_nodes, E) == E.from_node \notin p_nodes /\ E.to_node \in p_nodes
IsOutbound(p_nodes, E) == E.from_node \in p_nodes /\ E.to_node \notin p_nodes

EmptyConnections ==
    [input_executions |-> 0, input_data |-> 0, output_executions |-> 0, output_data |-> 0,
     connections |-> <<>>, inputs |-> <<>>, outputs |-> <<>>]

ResolveNodeSetConnections(N, F, cs, pl, p_nodes) ==
    [input_executions  |-> InputCount(N, F, pl, p_nodes, "exec"),
     input_data        |-> InputCount(N, F, pl, p_nodes, "data"),
     output_executions |-> OutputCount(N, F, pl, p_nodes, "exec"),
     output_data       |-> OutputCount(N, F, pl, p_nodes, "data"),
     connections       |-> SelectSeq(cs, LAMBDA E : IsInternal(p_nodes, E)),
     inputs            |-> SelectSeq(cs, LAMBDA E : IsInbound(p_nodes, E)),
     outputs           |-> SelectSeq(cs, LAMBDA E : IsOutbound(p_nodes, E))]

----------------------------------------------------------------------------
\* The orchestration when the editor opens

Graph == [nodes |-> nodes, conns |-> conns, pinLinks |-> pinLinks, functions |-> functions]

\* graph 0 is the event graph; function i owns graph i
GraphIds == 0 .. Len(functions)
NodesIn(N, g) == {n \in DOMAIN N : N[n].graph = g}

Node(kind, graph, pos, fn, lay) ==
    [kind |-> kind, graph |-> graph, pos |-> pos, fn |-> fn, lay |-> lay]

\* The event graph holds an event, three plain nodes and a Call node (5) of the
\* function F1, whose body is empty (Entry 6, Result 7).  Function F2 (Entry 8,
\* Result 9) holds a Call node (10) whose function no longer exists.
InitialNodes ==
    (1 :> Node("generic", 0, Vec(0, 0), 0, "ev")) @@
    (2 :> Node("generic", 0, Vec(400, 0), 0, "print")) @@
    (3 :> Node("generic", 0, Vec(400, 320), 0, "add")) @@
    (4 :> Node("generic", 0, Vec(800, 160), 0, "sink")) @@
    (5 :> Node("call", 0, Vec(1200, 0), 1, "none")) @@
    (6 :> Node("entry", 1, Vec(0, 0), 1, "none")) @@
    (7 :> Node("result", 1, Vec(300, 0), 1, "none")) @@
    (8 :> Node("entry", 2, Vec(0, 0), 2, "none")) @@
    (9 :> Node("result", 2, Vec(300, 0), 2, "none")) @@
    (10 :> Node("call", 2, Vec(160, 80), 0, "none"))

NewFunction(entry, result) ==
    [entry |-> entry, result |-> result, args |-> <<>>, has_return |-> FALSE,
     return_type |-> "nil"]

InitialFunctions == <<NewFunction(6, 7), NewFunction(8, 9)>>

\* a data input takes any value or a value of its own type
Compatible(src, dst) ==
    /\ src.kind = dst.kind
    /\ src.kind = "data" => (dst.type = "any" \/ dst.type = src.type)

\* wires the editor lets the user draw between the event-graph nodes, left to right
Candidates(N, F) ==
    {c \in [from_node : 1 .. 5, from_port : 0 .. 1, to_node : 1 .. 5, to_port : 0 .. 2] :
        /\ c.from_node < c.to_node
        /\ HasOutputPin(N, F, c.from_node, c.from_port)
        /\ HasInputPin(N, F, c.to_node, c.to_port)
        /\ Compatible(OutputPin(N, F, c.from_node, c.from_port),
                      InputPin(N, F, c.to_node, c.to_port))}

\* a data input pin accepts one source
SingleSourced(N, F, S) ==
    \A c, d \in S :
        (c.to_node = d.to_node /\ c.to_port = d.to_port /\ c # d)
            => InputPin(N, F, c.to_node, c.to_port).kind = "exec"

RECURSIVE SubsetsUpTo(_, _)
SubsetsUpTo(S, k) ==
    IF k = 0 \/ S = {} THEN {{}}
    ELSE LET x == CHOOSE y \in S : TRUE
             rest == S \ {x}
         IN SubsetsUpTo(rest, k) \cup {T \cup {x} : T \in SubsetsUpTo(rest, k - 1)}

InitLoc ==
    [selected |-> {}, graph |-> 0, node_id |-> 0, classified |-> FALSE,
     connections |-> EmptyConnections, function |-> 0, area |-> EmptyRect,
     call_node |-> 0, entry |-> 0, result |-> 0,
     input_index |-> 1, call_input_index |-> 1,
     input_execution_wired |-> FALSE, call_execution_wired |-> FALSE,
     entry_positioned |-> FALSE,
     output_execution_wired |-> FALSE, output_data_wired |-> FALSE, positioned |-> FALSE,
     call_output_index |-> 1, todo |-> <<>>, pos_delta |-> Vec(0, 0), node_remap |-> <<>>]

NoHist ==
    [valid |-> FALSE, op |-> 0, selected |-> {}, graph |-> 0, internal |-> {},
     pos |-> <<>>, call_node |-> 0, function |-> 0]

Init ==
    \E S \in SubsetsUpTo(Candidates(InitialNodes, InitialFunctions), MaxConns) :
        /\ SingleSourced(InitialNodes, InitialFunctions, S)
        /\ nodes = InitialNodes
        /\ conns = SeqOfConns(S)
        /\ pinLinks = S
        /\ functions = InitialFunctions
        /\ nextId = 11
        /\ pc = "idle"
        /\ loc = InitLoc
        /\ pre = [nodes |-> InitialNodes, conns |-> SeqOfConns(S), pinLinks |-> S,
                  functions |-> InitialFunctions]
        /\ last = [kind |-> "none", outcome |-> "none", reported |-> "none"]
        /\ linkLog = {}
        /\ hist = NoHist
        /\ ops = 0

----------------------------------------------------------------------------
\* _collapse_selected_to_function

\* if (selected.is_empty()) return;
SelectionIsEmptyNever(selected) == FALSE
SelectionIsEmpty(selected) == selected = {}

\* some selected node answers can_duplicate() with false
HasNonDuplicable(N, selected) == \E n \in selected : ~CanDuplicate(N, n)

\* the three ERR_FAIL_COND_EDMSG checks on the classification, in order
ThresholdErrorLoose(c) ==
    IF c.output_executions > 1 THEN "output_executions"
    ELSE IF Len(c.outputs) > 2 THEN "outputs"
    ELSE "none"
ThresholdError(c) ==
    IF c.input_executions > 1 THEN "input_executions"
    ELSE IF c.output_executions > 1 THEN "output_executions"
    ELSE IF Len(c.outputs) > 2 THEN "outputs"
    ELSE "none"

\* A handler is entered from the idle editor.  A handler that returned without
\* acting left the Graph Model as it found it, so a behaviour is not followed past it.
Begin(kind, outcome, reported) ==
    /\ pc = "idle"
    /\ ops < MaxOps
    /\ last.outcome # "returned"
    /\ ops' = ops + 1
    /\ pre' = Graph
    /\ linkLog' = {}
    /\ last' = [kind |-> kind, outcome |-> outcome, reported |-> reported]

\* selection read, empty check, can_duplicate check, classification, thresholds
Collapse_Validate(g, selected) ==
    LET stop == SelectionIsEmpty(selected) \/ HasNonDuplicable(nodes, selected)
        c == IF stop THEN EmptyConnections
             ELSE ResolveNodeSetConnections(nodes, functions, conns, pinLinks, selected)
        reported == IF SelectionIsEmpty(selected) THEN "none"
                    ELSE IF HasNonDuplicable(nodes, selected) THEN "cannot_duplicate"
                    ELSE ThresholdError(c)
        returns == stop \/ reported # "none"
    IN /\ Begin("collapse", IF returns THEN "returned" ELSE "running", reported)
       /\ loc' = [InitLoc EXCEPT !.selected = selected, !.graph = g, !.connections = c,
                                 !.classified = ~stop]
       /\ pc' = IF returns THEN "idle" ELSE "create_function"
       /\ UNCHANGED <<nodes, conns, pinLinks, functions, nextId, hist>>

\* _create_new_function(name, true), then the selection's rectangle
Collapse_CreateFunction ==
    /\ pc = "create_function"
    /\ LET f == Len(functions) + 1
           entry == nextId
           result == nextId + 1
       IN /\ functions' = Append(functions, NewFunction(entry, result))
          /\ nodes' = nodes @@ (entry :> Node("entry", f, Vec(0, 0), f, "none"))
                            @@ (result :> Node("result", f, VAdd(Vec(0, 0), Vec(300, 0)), f, "none"))
          /\ nextId' = nextId + 2
          /\ loc' = [loc EXCEPT !.function = f, !.entry = entry, !.result = result,
                                !.area = GetNodeSetRect(loc.selected, nodes)]
    /\ pc' = "sever"
    /\ UNCHANGED <<conns, pinLinks, pre, last, linkLog, hist, ops>>

\* the connections the two unlink loops remove
SeveredInputsOnly(c) == Elems(c.inputs)
Severed(c) == Elems(c.inputs) \cup Elems(c.outputs)

Collapse_Sever ==
    /\ pc = "sever"
    /\ conns' = UnlinkConns(conns, Severed(loc.connections))
    /\ pinLinks' = UnlinkPins(pinLinks, Severed(loc.connections))
    /\ loc' = [loc EXCEPT !.todo = SeqOfIds(loc.selected)]
    /\ pc' = "move"
    /\ UNCHANGED <<nodes, functions, nextId, pre, last, linkLog, hist, ops>>

\* source_graph->move_node_to(E, target_graph), one selected node per step
Collapse_Move ==
    /\ pc = "move"
    /\ loc.todo # <<>>
    /\ nodes' = [nodes EXCEPT ![Head(loc.todo)].graph = loc.function]
    /\ loc' = [loc EXCEPT !.todo = Tail(loc.todo)]
    /\ UNCHANGED <<conns, pinLinks, functions, nextId, pc, pre, last, linkLog, hist, ops>>

\* the graph the Call node is created in: source_graph->create_node<...>
CallNodeGraphTarget(source_graph, target_graph) == target_graph
CallNodeGraph(source_graph, target_graph) == source_graph

\* create_node<OScriptNodeCallScriptFunction>(context, area.get_center()); loop variables
Collapse_CreateCall ==
    /\ pc = "move"
    /\ loc.todo = <<>>
    /\ nodes' = nodes @@ (nextId :> Node("call", CallNodeGraph(loc.graph, loc.function), GetCenter(loc.area),
                                          loc.function, "none"))
    /\ nextId' = nextId + 1
    /\ loc' = [loc EXCEPT !.call_node = nextId, !.todo = loc.connections.inputs,
                          !.input_index = 1, !.call_input_index = 1,
                          !.input_execution_wired = FALSE, !.call_execution_wired = FALSE,
                          !.entry_positioned = FALSE]
    /\ pc' = "inbound"
    /\ UNCHANGED <<conns, pinLinks, functions, pre, last, linkLog, hist, ops>>

\* find_pins(...)[port] with a port the node does not have: CRASH_BAD_INDEX
Crash ==
    /\ pc' = "crashed"
    /\ last' = [last EXCEPT !.outcome = "crashed"]

\* the Call data input port an inbound data wire is linked to
CallInputPortStuck(call_input_index) == 1
CallInputPort(call_input_index) == call_input_index

\* the argument appended for an inbound wire into target_pin
ArgumentOfSource(source_pin, target_pin) == [name |-> source_pin.name, type |-> source_pin.type]
ArgumentOf(source_pin, target_pin) == [name |-> target_pin.name, type |-> target_pin.type]

\* the Entry data output port wired to an inbound data wire's destination
EntryOutputPortStuck(input_index) == 1
EntryOutputPort(input_index) == input_index

\* one iteration of the loop over connections.inputs
Collapse_Inbound ==
    /\ pc = "inbound"
    /\ loc.todo # <<>>
    /\ LET E == Head(loc.todo)
           call == loc.call_node
           srcOk == HasOutputPin(nodes, functions, E.from_node, E.from_port)
           source_pin == OutputPin(nodes, functions, E.from_node, E.from_port)
           wireExec == source_pin.kind = "exec" /\ ~loc.call_execution_wired
           wireData == source_pin.kind # "exec"
           callLink == IF wireExec THEN {Conn(E.from_node, E.from_port, call, 0)}
                       ELSE IF wireData
                         THEN {Conn(E.from_node, E.from_port, call, CallInputPort(loc.call_input_index))}
                       ELSE {}
           tgtOk == HasInputPin(nodes, functions, E.to_node, E.to_port)
           target_pin == InputPin(nodes, functions, E.to_node, E.to_port)
           addArg == target_pin.kind # "exec"
           wireEntryExec == target_pin.kind = "exec" /\ ~loc.input_execution_wired
           F2 == IF addArg
                   THEN [functions EXCEPT ![loc.function].args =
                            Append(@, ArgumentOf(source_pin, target_pin))]
                   ELSE functions
           entryLink == IF addArg THEN {Conn(loc.entry, EntryOutputPort(loc.input_index), E.to_node, E.to_port)}
                        ELSE IF wireEntryExec THEN {Conn(loc.entry, 0, E.to_node, E.to_port)}
                        ELSE {}
           cs1 == IF callLink = {} THEN conns ELSE LinkConns(conns, CHOOSE c \in callLink : TRUE)
           pl1 == pinLinks \cup callLink
           log1 == linkLog \cup {LogEntry(nodes, functions, c, IF wireExec THEN 215 ELSE 220) :
                                      c \in callLink}
       IN IF ~srcOk
            THEN Crash /\ UNCHANGED <<nodes, conns, pinLinks, functions, loc, linkLog>>
          ELSE IF ~tgtOk
            THEN /\ Crash
                 /\ conns' = cs1 /\ pinLinks' = pl1 /\ linkLog' = log1
                 /\ UNCHANGED <<nodes, functions, loc>>
          ELSE
            /\ conns' = IF entryLink = {} THEN cs1
                        ELSE LinkConns(cs1, CHOOSE c \in entryLink : TRUE)
            /\ pinLinks' = pl1 \cup entryLink
            /\ functions' = F2
            /\ nodes' = IF loc.entry_positioned THEN nodes
                        ELSE [nodes EXCEPT ![loc.entry].pos =
                                VSub(nodes[E.to_node].pos, Vec(250, 0))]
            /\ linkLog' = log1 \cup {LogEntry(nodes, F2, c, IF addArg THEN 242 ELSE 247) : c \in entryLink}
            /\ loc' = [loc EXCEPT
                 !.todo = Tail(loc.todo),
                 !.call_execution_wired = loc.call_execution_wired \/ wireExec,
                 !.call_input_index = IF ~wireExec /\ wireData THEN @ + 1 ELSE @,
                 !.entry_positioned = TRUE,
                 !.input_index = IF addArg THEN @ + 1 ELSE @,
                 !.input_execution_wired = loc.input_execution_wired \/ (~addArg /\ wireEntryExec)]
            /\ UNCHANGED <<pc, last>>
    /\ UNCHANGED <<nextId, pre, hist, ops>>

\* if (result.is_valid()) { loop variables of the loop over connections.outputs
Collapse_BeginOutbound ==
    /\ pc = "inbound"
    /\ loc.todo = <<>>
    /\ loc' = [loc EXCEPT !.todo = loc.connections.outputs,
                          !.output_execution_wired = FALSE, !.output_data_wired = FALSE,
                          !.positioned = FALSE]
    /\ pc' = "outbound"
    /\ UNCHANGED <<nodes, conns, pinLinks, functions, nextId, pre, last, linkLog, hist, ops>>

\* function->set_return_type(source_pin->get_type())
ReturnTypeAny(source_pin) == "any"
ReturnTypeOf(source_pin) == source_pin.type

\* one iteration of the loop over connections.outputs that wires the Result node
Collapse_Outbound ==
    /\ pc = "outbound"
    /\ loc.todo # <<>>
    /\ LET E == Head(loc.todo)
           srcOk == HasOutputPin(nodes, functions, E.from_node, E.from_port)
           source_pin == OutputPin(nodes, functions, E.from_node, E.from_port)
           wireExec == source_pin.kind = "exec" /\ ~loc.output_execution_wired
           wireData == source_pin.kind # "exec" /\ ~loc.output_data_wired
           F2 == IF ~wireExec /\ wireData
                   THEN [functions EXCEPT ![loc.function].has_return = TRUE,
                                          ![loc.function].return_type = ReturnTypeOf(source_pin)]
                   ELSE functions
           link == IF wireExec THEN {Conn(E.from_node, E.from_port, loc.result, 0)}
                   ELSE IF wireData THEN {Conn(E.from_node, E.from_port, loc.result, 1)}
                   ELSE {}
       IN IF ~srcOk
            THEN Crash /\ UNCHANGED <<nodes, conns, pinLinks, functions, loc, linkLog>>
          ELSE
            /\ nodes' = IF loc.positioned THEN nodes
                        ELSE [nodes EXCEPT ![loc.result].pos =
                                VAdd(nodes[E.from_node].pos, Vec(250, 0))]
            /\ functions' = F2
            /\ conns' = IF link = {} THEN conns ELSE LinkConns(conns, CHOOSE c \in link : TRUE)
            /\ pinLinks' = pinLinks \cup link
            /\ linkLog' = linkLog \cup {LogEntry(nodes, F2, c, IF wireExec THEN 272 ELSE 280) : c \in link}
            /\ loc' = [loc EXCEPT
                 !.todo = Tail(loc.todo),
                 !.positioned = TRUE,
                 !.output_execution_wired = loc.output_execution_wired \/ wireExec,
                 !.output_data_wired = loc.output_data_wired \/ (~wireExec /\ wireData)]
            /\ UNCHANGED <<pc, last>>
    /\ UNCHANGED <<nextId, pre, hist, ops>>

\* pin->has_any_connections()
InputHasConnections(pl, id, port) == \E c \in pl : c.to_node = id /\ c.to_port = port
OutputHasConnections(pl, id, port) == \E c \in pl : c.from_node = id /\ c.from_port = port

\* result_exec.is_valid() && !result_exec->has_any_connections()
ResultExecUnlinkedAlways(N, F, pl, result) == TRUE
ResultExecUnlinked(N, F, pl, result) ==
    HasInputPin(N, F, result, 0) /\ ~InputHasConnections(pl, result, 0)

\* entry_exec.is_valid() && !entry_exec->has_any_connections()
EntryExecUnlinkedAlways(N, F, pl, entry) == TRUE
EntryExecUnlinked(N, F, pl, entry) ==
    HasOutputPin(N, F, entry, 0) /\ ~OutputHasConnections(pl, entry, 0)

\* the Entry -> Result fixup after the Result loop, then the Call loop's variables
Collapse_Fixup ==
    /\ pc = "outbound"
    /\ loc.todo = <<>>
    /\ LET direct == Conn(loc.entry, 0, loc.result, 0)
           fix == /\ ResultExecUnlinked(nodes, functions, pinLinks, loc.result)
                  /\ EntryExecUnlinked(nodes, functions, pinLinks, loc.entry)
       IN /\ conns' = IF fix THEN LinkConns(conns, direct) ELSE conns
          /\ pinLinks' = IF fix THEN LinkPins(pinLinks, direct) ELSE pinLinks
          /\ linkLog' = IF fix THEN linkLog \cup {LogEntry(nodes, functions, direct, 291)}
                        ELSE linkLog
          /\ nodes' = IF fix /\ Len(OutputPins(nodes, functions, loc.entry)) = 1
                        THEN [nodes EXCEPT ![loc.entry].pos =
                                VSub(nodes[loc.result].pos, Vec(250, 0))]
                        ELSE nodes
    /\ loc' = [loc EXCEPT !.todo = loc.connections.outputs, !.call_output_index = 1,
                          !.call_execution_wired = FALSE]
    /\ pc' = "wire_call"
    /\ UNCHANGED <<functions, nextId, pre, last, hist, ops>>

\* one iteration of the loop over connections.outputs that wires the Call node
Collapse_WireCall ==
    /\ pc = "wire_call"
    /\ loc.todo # <<>>
    /\ LET E == Head(loc.todo)
           tgtOk == HasInputPin(nodes, functions, E.to_node, E.to_port)
           target_pin == InputPin(nodes, functions, E.to_node, E.to_port)
           wireExec == target_pin.kind = "exec" /\ ~loc.call_execution_wired
           wireData == target_pin.kind # "exec"
           link == IF wireExec THEN {Conn(loc.call_node, 0, E.to_node, E.to_port)}
                   ELSE IF wireData
                     THEN {Conn(loc.call_node, loc.call_output_index, E.to_node, E.to_port)}
                   ELSE {}
       IN IF ~tgtOk
            THEN Crash /\ UNCHANGED <<conns, pinLinks, loc, linkLog>>
          ELSE
            /\ conns' = IF link = {} THEN conns ELSE LinkConns(conns, CHOOSE c \in link : TRUE)
            /\ pinLinks' = pinLinks \cup link
            /\ linkLog' = linkLog \cup {LogEntry(nodes, functions, c, IF wireExec THEN 311 ELSE 316) : c \in link}
            /\ loc' = [loc EXCEPT
                 !.todo = Tail(loc.todo),
                 !.call_execution_wired = loc.call_execution_wired \/ wireExec,
                 !.call_output_index = IF ~wireExec /\ wireData THEN @ + 1 ELSE @]
            /\ UNCHANGED <<pc, last>>
    /\ UNCHANGED <<nodes, functions, nextId, pre, hist, ops>>

\* call_node->emit_changed(); find_and_edit: the handler returns
Collapse_Finish ==
    /\ pc = "wire_call"
    /\ loc.todo = <<>>
    /\ pc' = "idle"
    /\ last' = [last EXCEPT !.outcome = "ok"]
    /\ hist' = [valid |-> TRUE, op |-> ops, selected |-> loc.selected, graph |-> loc.graph,
                internal |-> {c \in Elems(pre.conns) :
                                 c.from_node \in loc.selected /\ c.to_node \in loc.selected},
                pos |-> [n \in loc.selected |-> pre.nodes[n].pos],
                call_node |-> loc.call_node, function |-> loc.function]
    /\ UNCHANGED <<nodes, conns, pinLinks, functions, nextId, loc, pre, linkLog, ops>>

----------------------------------------------------------------------------
\* _expand_node

\* Ref<OScriptNodeCallScriptFunction> call_node = get_node(p_node_id) is valid
IsCallNode(N, p_node_id) == p_node_id \in DOMAIN N /\ N[p_node_id].kind = "call"

\* call_node->get_function() is valid
HasFunction(N, F, call_node) == N[call_node].fn \in DOMAIN F

\* the function graph's nodes that are neither Entry nor Result and can be duplicated
BodyNodesAll(N, function) == NodesIn(N, function)
BodyNodes(N, function) ==
    {n \in NodesIn(N, function) :
        N[n].kind # "entry" /\ N[n].kind # "result" /\ CanDuplicate(N, n)}

\* pos_delta = call_node->get_position() - area.get_center()
PosDeltaFromCorner(call_pos, area) == VSub(call_pos, area.position)
PosDelta(call_pos, area) == VSub(call_pos, GetCenter(area))

\* p_graph is the graph edit showing the node
GraphOf(N, p_node_id) == IF p_node_id \in DOMAIN N THEN N[p_node_id].graph ELSE 0

\* resolve the Call node, its function and the body; rectangle and offset
Expand_Begin(p_node_id) ==
    LET resolved == IsCallNode(nodes, p_node_id) /\ HasFunction(nodes, functions, p_node_id)
        function == nodes[p_node_id].fn
        selected == IF resolved THEN BodyNodes(nodes, function) ELSE {}
        area == GetNodeSetRect(selected, nodes)
        returns == ~resolved \/ selected = {}
    IN /\ Begin("expand", IF returns THEN "returned" ELSE "running", "none")
       /\ loc' = IF returns
                   THEN [InitLoc EXCEPT !.node_id = p_node_id,
                                        !.graph = GraphOf(nodes, p_node_id)]
                   ELSE [InitLoc EXCEPT !.node_id = p_node_id,
                                        !.graph = GraphOf(nodes, p_node_id),
                                        !.call_node = p_node_id, !.function = function,
                                        !.selected = selected, !.area = area,
                                        !.pos_delta = PosDelta(nodes[p_node_id].pos, area),
                                        !.todo = SeqOfIds(selected)]
       /\ pc' = IF returns THEN "idle" ELSE "duplicate"
       /\ UNCHANGED <<nodes, conns, pinLinks, functions, nextId, hist>>

\* OScriptGraph::duplicate_node(id, pos_delta, true), one body node per step
Expand_Duplicate ==
    /\ pc = "duplicate"
    /\ loc.todo # <<>>
    /\ LET node == Head(loc.todo)
           duplicate == [nodes[node] EXCEPT !.graph = loc.graph,
                                            !.pos = VAdd(nodes[node].pos, loc.pos_delta)]
       IN /\ nodes' = nodes @@ (nextId :> duplicate)
          /\ loc' = [loc EXCEPT !.todo = Tail(loc.todo),
                                !.node_remap = loc.node_remap @@ (node :> nextId)]
    /\ nextId' = nextId + 1
    /\ UNCHANGED <<conns, pinLinks, functions, pc, pre, last, linkLog, hist, ops>>

\* _resolve_node_set_connections(selected, connections) on the body
Expand_Classify ==
    /\ pc = "duplicate"
    /\ loc.todo = <<>>
    /\ LET c == ResolveNodeSetConnections(nodes, functions, conns, pinLinks, loc.selected)
       IN loc' = [loc EXCEPT !.connections = c, !.classified = TRUE, !.todo = c.connections]
    /\ pc' = "relink"
    /\ UNCHANGED <<nodes, conns, pinLinks, functions, nextId, pre, last, linkLog, hist, ops>>

\* the connection made between the duplicates for the internal connection E
RemappedSwapped(node_remap, E) ==
    Conn(node_remap[E.to_node], E.from_port, node_remap[E.from_node], E.to_port)
Remapped(node_remap, E) ==
    Conn(node_remap[E.from_node], E.from_port, node_remap[E.to_node], E.to_port)

\* one iteration of the loop over connections.connections
Expand_Link ==
    /\ pc = "relink"
    /\ loc.todo # <<>>
    /\ LET c == Remapped(loc.node_remap, Head(loc.todo))
       IN /\ conns' = LinkConns(conns, c)
          /\ pinLinks' = LinkPins(pinLinks, c)
          /\ linkLog' = linkLog \cup {LogEntry(nodes, functions, c, 370)}
    /\ loc' = [loc EXCEPT !.todo = Tail(loc.todo)]
    /\ UNCHANGED <<nodes, functions, nextId, pc, pre, last, hist, ops>>

Touches(c, id) == c.from_node = id \/ c.to_node = id

\* Orchestration::remove_node(call_node->get_id()): the node and its connections go
Expand_Remove ==
    /\ pc = "relink"
    /\ loc.todo = <<>>
    /\ nodes' = [n \in DOMAIN nodes \ {loc.call_node} |-> nodes[n]]
    /\ conns' = SelectSeq(conns, LAMBDA c : ~Touches(c, loc.call_node))
    /\ pinLinks' = {c \in pinLinks : ~Touches(c, loc.call_node)}
    /\ pc' = "idle"
    /\ last' = [last EXCEPT !.outcome = "ok"]
    /\ UNCHANGED <<functions, nextId, loc, pre, linkLog, hist, ops>>

----------------------------------------------------------------------------
\* The editor: the user collapses a selection of one graph, or expands a node

Next ==
    \/ \E g \in GraphIds : \E selected \in SUBSET NodesIn(nodes, g) : Collapse_Validate(g, selected)
    \/ Collapse_CreateFunction
    \/ Collapse_Sever
    \/ Collapse_Move
    \/ Collapse_CreateCall
    \/ Collapse_Inbound
    \/ Collapse_BeginOutbound
    \/ Collapse_Outbound
    \/ Collapse_Fixup
    \/ Collapse_WireCall
    \/ Collapse_Finish
    \/ \E p_node_id \in DOMAIN nodes \cup {nextId} : Expand_Begin(p_node_id)
    \/ Expand_Duplicate
    \/ Expand_Classify
    \/ Expand_Link
    \/ Expand_Remove

Spec == Init /\ [][Next]_vars

----------------------------------------------------------------------------
\* What the properties below speak about, computed from the Graph Model as the
\* handler found it (pre) and from the selection, not from the handler's own
\* classification.

Selected == loc.selected
PreConns == Elems(pre.conns)
InSel(n) == n \in Selected

\* a connection is an execution connection when its destination pin is one
KindOf(E) == InputPin(pre.nodes, pre.functions, E.to_node, E.to_port).kind

CrossingIn == SelectSeq(pre.conns, LAMBDA E : InSel(E.to_node) /\ ~InSel(E.from_node))
CrossingOut == SelectSeq(pre.conns, LAMBDA E : InSel(E.from_node) /\ ~InSel(E.to_node))
CrossingInExec == SelectSeq(CrossingIn, LAMBDA E : KindOf(E) = "exec")
CrossingInData == SelectSeq(CrossingIn, LAMBDA E : KindOf(E) = "data")
CrossingOutExec == SelectSeq(CrossingOut, LAMBDA E : KindOf(E) = "exec")
CrossingOutData == SelectSeq(CrossingOut, LAMBDA E : KindOf(E) = "data")

Collapsing == last.kind = "collapse"
Collapsed == last.kind = "collapse" /\ last.outcome = "ok"
Expanding == last.kind = "expand"
Expanded == last.kind = "expand" /\ last.outcome = "ok"
Untouched == Graph = pre /\ pc = "idle" /\ last.outcome = "returned"

\* Rect2::get_center divides by two; the positions of the model keep that exact
HalvingIsExact ==
    /\ loc.area.size[1] % 2 = 0
    /\ loc.area.size[2] % 2 = 0

----------------------------------------------------------------------------
\* C1: the classification puts every connection of the global list in at most
\* one bucket; a connection is in a bucket iff one of its ends is selected;
\* internal = both ends selected, inbound = only the destination selected,
\* outbound = only the source selected.
C1_ClassifierPartition ==
    loc.classified =>
        LET internal == Elems(loc.connections.connections)
            inbound == Elems(loc.connections.inputs)
            outbound == Elems(loc.connections.outputs)
        IN /\ internal \cap inbound = {}
           /\ internal \cap outbound = {}
           /\ inbound \cap outbound = {}
           /\ internal \cup inbound \cup outbound =
                {E \in PreConns : InSel(E.from_node) \/ InSel(E.to_node)}
           /\ internal = {E \in PreConns : InSel(E.from_node) /\ InSel(E.to_node)}
           /\ inbound = {E \in PreConns : ~InSel(E.from_node) /\ InSel(E.to_node)}
           /\ outbound = {E \in PreConns : InSel(E.from_node) /\ ~InSel(E.to_node)}

\* a classification in which all three buckets are filled and a connection is left out
C1_Witness ==
    /\ loc.classified
    /\ loc.connections.connections # <<>>
    /\ loc.connections.inputs # <<>>
    /\ loc.connections.outputs # <<>>
    /\ \E E \in PreConns : ~InSel(E.from_node) /\ ~InSel(E.to_node)

\* C2: extraction leaves the Graph Model as it was when a selected node cannot
\* be duplicated, or more than one execution connection crosses inwards, or
\* more than one crosses outwards, or more than two connections cross outwards.
C2_MustReject ==
    \/ \E n \in Selected : ~CanDuplicate(pre.nodes, n)
    \/ Len(CrossingInExec) > 1
    \/ Len(CrossingOutExec) > 1
    \/ Len(CrossingOut) > 2

C2_RejectedUnchanged == (Collapsing /\ C2_MustReject) => Untouched

\* two distinct outside execution sources feed two different selected nodes
C2_Witness ==
    /\ Collapsing
    /\ \A n \in Selected : CanDuplicate(pre.nodes, n)
    /\ \E i, j \in DOMAIN CrossingInExec :
          /\ CrossingInExec[i].from_node # CrossingInExec[j].from_node
          /\ CrossingInExec[i].to_node # CrossingInExec[j].to_node
    /\ last.reported = "input_executions"
    /\ Untouched

\* C3: after a successful extraction every selected node is in the new
\* function's graph, and every connection of a moved node leads to another
\* moved node or to the new Entry or Result node.
C3_MovedAndIsolated ==
    Collapsed =>
        /\ \A n \in Selected : nodes[n].graph = loc.function
        /\ \A c \in Elems(conns) :
              (InSel(c.from_node) \/ InSel(c.to_node)) =>
                  /\ nodes[c.from_node].graph = loc.function
                  /\ nodes[c.to_node].graph = loc.function
                  /\ InSel(c.from_node) \/ c.from_node = functions[loc.function].entry
                  /\ InSel(c.to_node) \/ c.to_node = functions[loc.function].result

\* an extraction with connections crossing both ways has run to its end
C3_Witness ==
    /\ Collapsed
    /\ CrossingIn # <<>>
    /\ CrossingOut # <<>>
    /\ \E c \in Elems(conns) : InSel(c.from_node) /\ c.to_node = functions[loc.function].result

\* C4: after a successful extraction the new function has one argument per
\* inbound data connection, in the connection list's order, each named and
\* typed as that connection's destination pin.
C4_ArgumentsMatchPins ==
    Collapsed =>
        LET args == functions[loc.function].args IN
        /\ Len(args) = Len(CrossingInData)
        /\ \A k \in DOMAIN CrossingInData :
              LET pin == InputPin(pre.nodes, pre.functions,
                                  CrossingInData[k].to_node, CrossingInData[k].to_port)
              IN args[k].name = pin.name /\ args[k].type = pin.type

\* two inbound data connections whose destination pins differ in name
C4_Witness ==
    /\ Collapsed
    /\ Len(functions[loc.function].args) = 2
    /\ functions[loc.function].args[1].name # functions[loc.function].args[2].name

\* centre of the smallest rectangle around the points P
BoxCentre(P) ==
    LET xs == {p[1] : p \in P}
        ys == {p[2] : p \in P}
        lo(V) == CHOOSE v \in V : \A w \in V : v <= w
        hi(V) == CHOOSE v \in V : \A w \in V : w <= v
    IN Vec((lo(xs) + hi(xs)) \div 2, (lo(ys) + hi(ys)) \div 2)

\* the inlining that has just ended inlined the Call node of the extraction before it
RoundTrip ==
    /\ Expanded
    /\ pc = "idle"
    /\ hist.valid
    /\ ops = hist.op + 1
    /\ loc.call_node = hist.call_node
    /\ loc.graph = hist.graph

\* C5: extracting S and inlining the resulting Call node gives one new node per
\* node of S in the original graph; two new nodes are connected on ports (p, q)
\* iff the originals were by an internal connection of S; every new node sits
\* at the original position plus call_node.position minus the body's centre.
C5_RoundTripCongruent ==
    RoundTrip =>
        LET S == hist.selected
            r == loc.node_remap
            delta == VSub(pre.nodes[hist.call_node].pos,
                          BoxCentre({hist.pos[n] : n \in S}))
        IN /\ DOMAIN r = S
           /\ \A a, b \in S : a # b => r[a] # r[b]
           /\ \A n \in S :
                 /\ r[n] \notin DOMAIN pre.nodes
                 /\ r[n] \in DOMAIN nodes
                 /\ nodes[r[n]].graph = hist.graph
                 /\ nodes[r[n]].kind = pre.nodes[n].kind
                 /\ nodes[r[n]].pos = VAdd(hist.pos[n], delta)
           /\ {c \in Elems(conns) : c.from_node \in {r[n] : n \in S}
                                     /\ c.to_node \in {r[n] : n \in S}} =
              {Conn(r[c.from_node], c.from_port, r[c.to_node], c.to_port) : c \in hist.internal}

\* a round trip of two nodes at different places with a connection between them
C5_Witness ==
    /\ RoundTrip
    /\ Cardinality(hist.selected) >= 2
    /\ hist.internal # {}
    /\ loc.area.size # Vec(0, 0)

\* C6: inlining leaves the Graph Model as it was, the Call node included, when the
\* id is no Call node, the Call node has no function, or the function's graph
\* has no duplicable node besides Entry and Result.
C6_MustSkip ==
    LET id == loc.node_id IN
    \/ id \notin DOMAIN pre.nodes
    \/ pre.nodes[id].kind # "call"
    \/ pre.nodes[id].fn \notin DOMAIN pre.functions
    \/ ~\E n \in DOMAIN pre.nodes :
          /\ pre.nodes[n].graph = pre.nodes[id].fn
          /\ pre.nodes[n].kind \notin {"entry", "result"}
          /\ CanDuplicate(pre.nodes, n)

C6_SkippedUnchanged == (Expanding /\ C6_MustSkip) => Untouched

\* a connected Call node of a function with an empty body was asked to be inlined
C6_Witness ==
    /\ Expanding
    /\ Untouched
    /\ loc.node_id \in DOMAIN nodes
    /\ nodes[loc.node_id].kind = "call"
    /\ nodes[loc.node_id].fn \in DOMAIN functions
    /\ \E c \in Elems(conns) : Touches(c, loc.node_id)

\* C7 as claimed: extraction of an empty selection reports an error and changes nothing.
C7_EmptySelectionReported ==
    (Collapsing /\ Selected = {}) => (last.reported # "none" /\ Untouched)

\* C7 as amended: extraction of an empty selection returns silently, reporting
\* nothing, and changes nothing.
C7_EmptySelectionSilent ==
    (Collapsing /\ Selected = {}) => (last.reported = "none" /\ Untouched)

\* extraction was asked for with nothing selected
C7_Witness == Collapsing /\ Selected = {} /\ pc = "idle" /\ ops > 0

\* C8: an extraction that passed its checks has at most one execution
\* connection and at most one data connection crossing outwards.
C8_OneExecOneDataOut ==
    (Collapsing /\ last.outcome \in {"running", "ok"}) =>
        /\ Len(CrossingOutExec) <= 1
        /\ Len(CrossingOutData) <= 1

\* C9: every connection made by extraction or inlining joins two pins that
\* exist on their nodes when it is made.
C9_PinsExistAtCreation == \A e \in linkLog : e.src_ok /\ e.dst_ok

OnOutput(id, port) == {c \in Elems(conns) \cup pinLinks : c.from_node = id /\ c.from_port = port}
OnInput(id, port) == {c \in Elems(conns) \cup pinLinks : c.to_node = id /\ c.to_port = port}

\* functions made by extraction
Synthesized == {f \in DOMAIN functions : f > Len(InitialFunctions)}

\* C11: in every state, every function's Entry node has at most one connection
\* on its execution output (port 0) and its Result node at most one on its
\* execution input (port 0).
C11_SinglePrimaryPath ==
    \A f \in DOMAIN functions :
        /\ Cardinality(OnOutput(functions[f].entry, 0)) <= 1
        /\ Cardinality(OnInput(functions[f].result, 0)) <= 1

\* two extractions have run to their end, and in both functions the Entry node
\* triggers a moved node and a moved node triggers the Result node
C11_Witness ==
    /\ Collapsed
    /\ pc = "idle"
    /\ Cardinality(Synthesized) = 2
    /\ \A f \in Synthesized :
          /\ \E c \in OnOutput(functions[f].entry, 0) : c.to_node # functions[f].result
          /\ \E c \in OnInput(functions[f].result, 0) : c.from_node # functions[f].entry

\* C12: after a successful extraction the k-th inbound data connection E, in
\* the connection list's order, has all three of: its outside source is the one
\* connection on the Call node's data input k; the function's k-th argument has
\* the name and type of E's destination pin; the Entry node's data output k has
\* one connection, to E's inside destination (node and port).
C12_InboundDataInStep ==
    Collapsed =>
        LET call == loc.call_node
            entry == functions[loc.function].entry
            args == functions[loc.function].args
        IN \A k \in DOMAIN CrossingInData :
              LET E == CrossingInData[k]
                  pin == InputPin(pre.nodes, pre.functions, E.to_node, E.to_port)
              IN /\ OnInput(call, k) = {Conn(E.from_node, E.from_port, call, k)}
                 /\ Conn(E.from_node, E.from_port, call, k) \in Elems(conns) \cap pinLinks
                 /\ k \in DOMAIN args
                 /\ args[k] = [name |-> pin.name, type |-> pin.type]
                 /\ OnOutput(entry, k) = {Conn(entry, k, E.to_node, E.to_port)}
                 /\ Conn(entry, k, E.to_node, E.to_port) \in Elems(conns) \cap pinLinks

\* two inbound data connections from different outside nodes, the second one
\* coming after an inbound execution connection in the connection list
C12_Witness ==
    /\ Collapsed
    /\ pc = "idle"
    /\ Len(CrossingInData) = 2
    /\ CrossingInData[1].from_node # CrossingInData[2].from_node
    /\ CrossingInData[1].to_node # CrossingInData[2].to_node
    /\ \E i, j \in DOMAIN CrossingIn :
          i < j /\ KindOf(CrossingIn[i]) = "exec" /\ CrossingIn[j] = CrossingInData[2]

\* C13: after a successful extraction the function has a return value iff a
\* data connection crossed outwards; then the return type is the type of the
\* source pin of the first such connection and that pin is connected to the
\* Result node's data input 1; the source of the first execution connection
\* crossing outwards is connected to the Result node's execution input 0.
C13_ReturnFromFirstOutbound ==
    Collapsed =>
        LET f == functions[loc.function]
            linked(c) == c \in Elems(conns) /\ c \in pinLinks
        IN /\ f.has_return <=> CrossingOutData # <<>>
           /\ CrossingOutData # <<>> =>
                 LET E == CrossingOutData[1]
                     source_pin == OutputPin(pre.nodes, pre.functions, E.from_node, E.from_port)
                 IN /\ f.return_type = source_pin.type
                    /\ linked(Conn(E.from_node, E.from_port, f.result, 1))
           /\ CrossingOutExec # <<>> =>
                 LET E == CrossingOutExec[1]
                 IN linked(Conn(E.from_node, E.from_port, f.result, 0))

\* two connections crossed outwards, the first data connection among them from
\* a typed pin, the other one from a pin of another type or kind
C13_Witness ==
    /\ Collapsed
    /\ pc = "idle"
    /\ Len(CrossingOut) = 2
    /\ CrossingOutData # <<>>
    /\ functions[loc.function].has_return
    /\ functions[loc.function].return_type \in {"int", "str"}
    /\ \E i \in DOMAIN CrossingOut :
          OutputPin(pre.nodes, pre.functions, CrossingOut[i].from_node,
                    CrossingOut[i].from_port).type # functions[loc.function].return_type

\* the direct connection of the fixup, and connections on its two pins besides it
DirectLink == Conn(functions[loc.function].entry, 0, functions[loc.function].result, 0)
ResultTriggered == \E c \in OnInput(functions[loc.function].result, 0) : c # DirectLink
EntryTriggers == \E c \in OnOutput(functions[loc.function].entry, 0) : c # DirectLink

\* C14: once the rewiring of the Entry and Result nodes is over, the direct
\* connection Entry execution output 0 -> Result execution input 0 is in the
\* global list and in the pins' back-references if neither of the two pins has
\* another connection, and in neither of the two if one of them has.
C14_DirectLinkIffBothFree ==
    (Collapsing /\ pc \in {"wire_call", "idle"} /\ last.outcome \in {"running", "ok"}) =>
        IF ~ResultTriggered /\ ~EntryTriggers
          THEN DirectLink \in Elems(conns) /\ DirectLink \in pinLinks
          ELSE DirectLink \notin Elems(conns) /\ DirectLink \notin pinLinks

\* the extraction of a selection that data wires enter and leave, but no
\* execution wire, has run to its end with the direct connection made
C14_Witness ==
    /\ Collapsed
    /\ pc = "idle"
    /\ CrossingInData # <<>>
    /\ CrossingOutData # <<>>
    /\ DirectLink \in Elems(conns)
    /\ DirectLink \in pinLinks

\* both ends of connection c are nodes of one subgraph
InOneSubgraph(c) ==
    /\ c.from_node \in DOMAIN nodes
    /\ c.to_node \in DOMAIN nodes
    /\ nodes[c.from_node].graph = nodes[c.to_node].graph

\* every node belongs to one subgraph of the orchestration
NodesOwned == \A n \in DOMAIN nodes : nodes[n].graph \in GraphIds

\* the move loop has moved some selected node and not yet another
MoveLoopRunning ==
    /\ Collapsing
    /\ pc = "move"
    /\ \E a, b \in Selected : nodes[a].graph # nodes[b].graph

\* C15 as claimed: in every state, between and inside the steps of extraction
\* and inlining, every connection of the global list has both ends in one
\* subgraph and every node belongs to one subgraph.
C15_ConnectionsWithinSubgraph ==
    /\ NodesOwned
    /\ \A c \in Elems(conns) : InOneSubgraph(c)

\* C15 as amended: the same, except that while the move loop runs a connection
\* between two selected nodes may join a node already moved to one not yet moved.
C15_WithinSubgraphButMoveLoop ==
    /\ NodesOwned
    /\ \A c \in Elems(conns) :
          \/ InOneSubgraph(c)
          \/ MoveLoopRunning /\ InSel(c.from_node) /\ InSel(c.to_node)

\* an extraction is wiring the Call node; connections crossed both ways and one
\* stayed inside the selection
C15_Witness ==
    /\ Collapsing
    /\ pc = "wire_call"
    /\ CrossingIn # <<>>
    /\ CrossingOut # <<>>
    /\ \E c \in Elems(conns) : InSel(c.from_node) /\ InSel(c.to_node)
    /\ \E c \in Elems(conns) : c.to_node = loc.call_node

\* the pins' back-references and the global list, as the classifier found them,
\* hold the same connections, each between two pins that exist
BackReferencesConsistent ==
    /\ pre.pinLinks = PreConns
    /\ \A c \in PreConns :
          /\ HasOutputPin(pre.nodes, pre.functions, c.from_node, c.from_port)
          /\ HasInputPin(pre.nodes, pre.functions, c.to_node, c.to_port)

\* connection E joins two execution pins
IsExecution(E) ==
    /\ OutputPin(pre.nodes, pre.functions, E.from_node, E.from_port).kind = "exec"
    /\ InputPin(pre.nodes, pre.functions, E.to_node, E.to_port).kind = "exec"

\* C16: when the back-references are consistent with the global list, the
\* counters of the classifier's first pass equal the sizes of the buckets of its
\* second pass: inbound counters add up to the inbound bucket, outbound counters
\* to the outbound bucket, and each execution counter is the number of
\* execution connections in its bucket.
C16_CountersMatchBuckets ==
    (loc.classified /\ BackReferencesConsistent) =>
        LET c == loc.connections IN
        /\ c.input_executions + c.input_data = Len(c.inputs)
        /\ c.output_executions + c.output_data = Len(c.outputs)
        /\ c.input_executions = Cardinality({E \in Elems(c.inputs) : IsExecution(E)})
        /\ c.output_executions = Cardinality({E \in Elems(c.outputs) : IsExecution(E)})

\* a classification in which two execution connections cross inwards onto one
\* pin of a selected node, and a data connection crosses inwards as well
C16_Witness ==
    /\ loc.classified
    /\ BackReferencesConsistent
    /\ loc.connections.input_executions = 2
    /\ loc.connections.input_data >= 1
    /\ \E E, G \in Elems(loc.connections.inputs) :
          E # G /\ IsExecution(E) /\ E.to_node = G.to_node /\ E.to_port = G.to_port

====
